---- MODULE Spec2Model ----
(***************************************************************************)
(* Model of archiver.py: the Archiver class that launches one external     *)
(* process per configured source (archive, remotechecksum, clean), polls   *)
(* them to completion, verifies checksums and optionally cleans.           *)
(*                                                                         *)
(* Text is modelled structurally.  A byte string is the sequence of its    *)
(* lines (what split('\n') returns, never empty), and a line is the        *)
(* sequence of its fields (what split('  ') returns, never empty).  The    *)
(* empty byte string is therefore << <<"">> >> and "\n" is                 *)
(* << <<"">>, <<"">> >>.  Python's None return code is the empty set, an   *)
(* integer return code rc is {rc}.                                         *)
(***************************************************************************)
EXTENDS Integers, Sequences, FiniteSets, TLC

\* ------------------------------------------------------------ bounds
MaxSources == 2
MaxLines == 2

\* ------------------------------------------------------------ universes
Hosts == 1..MaxSources
Paths == {"/f1", "/f2"}
Contents == {"c1", "c2"}
Hashes == {"a", "b"}
NoFile == "<nofile>"
Namespaces == {"archive", "clean", "localchecksum", "remotechecksum"}
ReturnCodes == {-1, 0, 1}

Empty == << <<"">> >>
NoHash == "<False>"

\* the lines a checksum sweep may print: a blank line, "<hash>  <path>",
\* or a line without the two-space separator
ListingLines ==
  {<<"">>, <<"garbage">>} \cup {<<h, p>> : h \in Hashes, p \in Paths}

RECURSIVE SeqsUpTo(_, _)
SeqsUpTo(S, n) ==
  IF n = 0 THEN {<<>>}
  ELSE LET shorter == SeqsUpTo(S, n - 1)
       IN shorter \cup {Append(s, x) : s \in {t \in shorter : Len(t) = n - 1}, x \in S}

Listings == SeqsUpTo(ListingLines, MaxLines) \ {<<>>}
\* rsync -v prints a summary; find -exec rm prints nothing
RsyncOutputs == {<< <<"sent 2 files">> >>}
CleanOutputs == {Empty}
ErrOutputs == {Empty, << <<"error">> >>}

\* a sequence without repeated elements
NoRepeat(s) == \A x, y \in 1..Len(s) : s[x] = s[y] => x = y

\* settings.sources: every host at most once
SourceLists == {s \in SeqsUpTo(Hosts, MaxSources) : NoRepeat(s)}

VARIABLES
  sources,      \* settings.sources: the sequence of source hosts
  actions,      \* self.actions
  logging,      \* settings.logging
  errors,       \* self.errors, the Error Flag
  processInfo,  \* self.processInfo, the Result Store
  logFile,      \* entries written to settings.logFile['stdout']
  logFileError, \* entries written to settings.logFile['stderr']
  children,     \* per namespace, the external processes launched so far
  procs,        \* processList of runProcs: indices into children[ns]
  localFiles,   \* the local archive tree as compareHashes reads it:
                \* content of targetFolder/host+path
  pc,           \* position of the orchestrator
  ns,           \* namespace of the current batch
  i,            \* buildCommands: index of the next source to launch
  idx,          \* runProcs: position of the list iterator of the for loop
  j,            \* verifyChecksums: index of the next source to compare
  verified,     \* indices of sources for which compareHashes returned True
  exitCode,     \* {} while running, {code} once the process has terminated
  exc,          \* name of the uncaught exception that ended the run, or ""
  exitSite,     \* where sys.exit was called, "" while running
  batchFlag,    \* per namespace, the values of the Error Flag seen so far:
                \* at the start of its batch, then at the end of its runProcs
  lastFailure   \* <<site, code>> of the failure that ended the previous run
                \* of the script, <<>> when there is none

vars == <<sources, actions, logging, errors, processInfo, logFile, logFileError,
          children, procs, localFiles, pc, ns, i, idx, j, verified, exitCode,
          exc, exitSite, batchFlag, lastFailure>>

\* the sites of the sys.exit calls that report a failed phase: runProcs for
\* each namespace, and the comparison of the hashes
FailureSites == {"archive", "remotechecksum", "clean", "checksum"}

\* ------------------------------------------------------------ helpers
EmptyResult == [returncode |-> {}, stdout |-> Empty, stderr |-> Empty]

EmptyFun == [x \in {} |-> {}]

Update(f, k, v) == [x \in DOMAIN f \cup {k} |-> IF x = k THEN v ELSE f[x]]

RemoveAt(s, k) == [n \in 1..(Len(s) - 1) |-> IF n < k THEN s[n] ELSE s[n + 1]]


\* ------------------------------------------------------------ pure functions

\* initProcessInfo: one update of the whole namespace entry per source
RECURSIVE InitProcessInfoUpTo(_, _, _, _)
InitProcessInfoUpTo(pi, srcs, namespace, n) ==
  IF n = 0 THEN pi
  ELSE Update(InitProcessInfoUpTo(pi, srcs, namespace, n - 1), namespace,
              [h \in {srcs[n]} |-> EmptyResult])

\* "self.processInfo = {namespace: ...}" in place of the update
initProcessInfoFresh(pi, srcs, namespace) ==
  InitProcessInfoUpTo(EmptyFun, srcs, namespace, Len(srcs))

initProcessInfo(pi, srcs, namespace) ==
  InitProcessInfoUpTo(pi, srcs, namespace, Len(srcs))

\* hashlib.md5 of a file's content
MD5(content) == IF content = "c1" THEN "a" ELSE "b"

\* calculateLocalHash: False when the file cannot be opened
calculateLocalHash(files, host, path) ==
  IF path \notin Paths \/ files[<<host, path>>] = NoFile
  THEN NoHash
  ELSE MD5(files[<<host, path>>])

\* getHashes raises IndexError on a line whose first field is not empty and
\* that has no second field
getHashesRaises(stdout) ==
  \E n \in 1..Len(stdout) : stdout[n][1] # "" /\ Len(stdout[n]) < 2

\* getHashes: the dict {hash: filename}; a later line with the same hash
\* replaces the earlier one
RECURSIVE GetHashesUpTo(_, _)
GetHashesUpTo(stdout, n) ==
  IF n = 0 THEN EmptyFun
  ELSE LET result == GetHashesUpTo(stdout, n - 1)
           list == stdout[n]
       IN IF list[1] # "" THEN Update(result, list[1], list[2]) ELSE result

\* a getHashes without the test of the hash field, taking the last field
RECURSIVE GetHashesNoSkipUpTo(_, _)
GetHashesNoSkipUpTo(stdout, n) ==
  IF n = 0 THEN EmptyFun
  ELSE LET list == stdout[n]
       IN Update(GetHashesNoSkipUpTo(stdout, n - 1), list[1], list[Len(list)])

getHashesNoSkip(stdout) == GetHashesNoSkipUpTo(stdout, Len(stdout))

getHashes(stdout) == GetHashesUpTo(stdout, Len(stdout))

\* compareHashes (when getHashes does not raise)
compareHashes(files, host, stdoutRemote) ==
  IF stdoutRemote = Empty THEN FALSE
  ELSE LET hashesRemote == getHashes(stdoutRemote)
       IN \A hash \in DOMAIN hashesRemote :
            hash = calculateLocalHash(files, host, hashesRemote[hash])

\* ">= 0" in place of "> 0"
ProcFailedNonNegative(returncode, stderr) ==
  (\E rc \in returncode : rc >= 0) \/ stderr # Empty

\* the Error Flag update rule of runProcs for one finished process
ProcFailed(returncode, stderr) ==
  (\E rc \in returncode : rc > 0) \/ stderr # Empty

\* logProcessInfo: the entries appended to one log file for one stream
RECURSIVE LogEntries(_, _, _)
LogEntries(results, servers, stream) ==
  IF servers = {} THEN <<>>
  ELSE LET server == CHOOSE s \in servers : TRUE
           rest == LogEntries(results, servers \ {server}, stream)
       IN IF results[server][stream] # Empty
          THEN <<<<server, results[server][stream]>>>> \o rest
          ELSE rest

\* exit code of each sys.exit call
ExitBatchError == 3
ExitInvalidCommand == 4
ExitChecksumAsBatch == ExitBatchError
ExitChecksum == 5
ExitVerifySkipped == 6
ExitCleanSkipped == 7
ExitUncaught == 1


\* ------------------------------------------------------------ initial state

Init ==
  /\ sources \in SourceLists
  /\ actions \in [clean : BOOLEAN, run : {TRUE}]
  /\ logging \in BOOLEAN
  /\ errors = FALSE
  /\ processInfo = EmptyFun
  /\ logFile = <<>>
  /\ logFileError = <<>>
  /\ children = [n \in Namespaces |-> <<>>]
  /\ procs = <<>>
  /\ localFiles = [f \in Hosts \X Paths |-> NoFile]
  /\ pc = "archive"
  /\ ns = "archive"
  /\ i = 1
  /\ idx = 1
  /\ j = 1
  /\ verified = {}
  /\ exitCode = {}
  /\ exc = ""
  /\ exitSite = ""
  /\ batchFlag = [n \in Namespaces |-> <<>>]
  /\ lastFailure = <<>>

\* ------------------------------------------------------------ ways to stop

\* sys.exit(code) called at the given site
Exit(code, site) ==
  /\ pc' = "exit"
  /\ exitCode' = {code}
  /\ exc' = ""
  /\ exitSite' = site
  /\ UNCHANGED lastFailure

\* an exception nobody catches: traceback, exit status 1
Raise(name) ==
  /\ pc' = "exit"
  /\ exitCode' = {ExitUncaught}
  /\ exc' = name
  /\ exitSite' = "uncaught"
  /\ UNCHANGED lastFailure

Continue(next) ==
  /\ pc' = next
  /\ UNCHANGED <<exitCode, exc, exitSite, lastFailure>>

\* ------------------------------------------------------------ buildCommands

\* buildCommands up to its loop: procs = [] and initProcessInfo(namespace)
StartBatch(namespace) ==
  /\ ns' = namespace
  /\ procs' = <<>>
  /\ processInfo' = initProcessInfo(processInfo, sources, namespace)
  /\ i' = 1
  /\ batchFlag' = [n \in Namespaces \cup {namespace} |->
                     IF n = namespace THEN <<errors>> ELSE batchFlag[n]]
  /\ Continue("build")
  /\ UNCHANGED <<sources, actions, logging, errors, logFile, logFileError,
                 children, localFiles, idx, j, verified>>

\* archive(): buildCommands('archive')
Archive ==
  /\ pc = "archive"
  /\ StartBatch("archive")

\* one iteration of the loop of buildCommands: buildTargetFolder, the command
\* for the namespace, subprocess.Popen
Launch ==
  /\ pc = "build"
  /\ i <= Len(sources)
  /\ \E mkdirOk \in BOOLEAN :
       IF ~mkdirOk
       THEN /\ Raise("OSError")
            /\ UNCHANGED <<children, procs, i>>
       ELSE IF ns \notin Namespaces
       THEN /\ Exit(ExitInvalidCommand, "buildCommands")
            /\ UNCHANGED <<children, procs, i>>
       ELSE /\ children' = [children EXCEPT ![ns] =
                 Append(@, [host |-> sources[i], state |-> "running",
                            returncode |-> {}, stdout |-> Empty,
                            stderr |-> Empty, failed |-> FALSE])]
            /\ procs' = Append(procs, Len(children[ns]) + 1)
            /\ i' = i + 1
            /\ Continue("build")
  /\ UNCHANGED batchFlag
  /\ UNCHANGED <<sources, actions, logging, errors, processInfo, logFile,
                 logFileError, localFiles, ns, idx, j, verified>>

\* buildCommands returns procs and runProcs(namespace, procs) starts
BuildReturn ==
  /\ pc = "build"
  /\ i > Len(sources)
  /\ idx' = 1
  /\ Continue("poll")
  /\ UNCHANGED batchFlag
  /\ UNCHANGED <<sources, actions, logging, errors, processInfo, logFile,
                 logFileError, children, procs, localFiles, ns, i, j, verified>>

\* ------------------------------------------------------------ the environment

OutputsOf(namespace) ==
  IF namespace \in {"remotechecksum", "localchecksum"} THEN Listings
  ELSE IF namespace = "archive" THEN RsyncOutputs
  ELSE CleanOutputs

\* an external process terminates with some return code and output
ChildTerminates ==
  /\ pc # "exit"
  /\ \E n \in Namespaces : \E k \in DOMAIN children[n] :
       /\ children[n][k].state = "running"
       /\ \E rc \in ReturnCodes, out \in OutputsOf(n), err \in ErrOutputs :
            children' = [children EXCEPT ![n][k] =
              [@ EXCEPT !.state = "terminated", !.returncode = {rc},
                        !.stdout = out, !.stderr = err,
                        !.failed = (rc # 0 \/ err # Empty)]]
  /\ UNCHANGED batchFlag
  /\ UNCHANGED <<sources, actions, logging, errors, processInfo, logFile,
                 logFileError, procs, localFiles, pc, ns, i, idx, j, verified,
                 exitCode, exc, exitSite, lastFailure>>

\* an external process has more output than the pipe of subprocess.PIPE
\* holds (ChildTerminates is the process whose output fits): it fills the
\* pipe and blocks in write() until something reads the pipe. Only a read
\* releases it, and the only reads of the program are those of Poll.
ChildBlocks ==
  /\ pc # "exit"
  /\ \E n \in Namespaces : \E k \in DOMAIN children[n] :
       /\ children[n][k].state = "running"
       /\ children' = [children EXCEPT ![n][k].state = "blocked"]
  /\ UNCHANGED batchFlag
  /\ UNCHANGED <<sources, actions, logging, errors, processInfo, logFile,
                 logFileError, procs, localFiles, pc, ns, i, idx, j, verified,
                 exitCode, exc, exitSite, lastFailure>>

\* ------------------------------------------------------------ runProcs

\* "if processList:" in place of "while processList:"
IfProcessList(processList) == FALSE

\* the condition of "while processList:" when the for loop has ended
WhileProcessList(processList) == processList # <<>>

\* one step of "while processList: for p in processList:".  The for loop
\* keeps a position in the list; removing the element just visited shifts
\* the rest left, so the next visit skips one element.
Poll ==
  /\ pc = "poll"
  /\ IF idx > Len(procs)
     THEN \* the for loop is over: test the while condition again
          /\ IF ~WhileProcessList(procs)
             THEN Continue("drained") /\ UNCHANGED idx
             ELSE Continue("poll") /\ idx' = 1
          /\ UNCHANGED <<processInfo, errors, procs, children>>
     ELSE LET k == procs[idx]
              proc == children[ns][k]
              server == proc.host
          IN IF proc.state \in {"running", "blocked"}
             THEN \* proc.poll() is None: nothing is read from its pipes
                  /\ idx' = idx + 1
                  /\ Continue("poll")
                  /\ UNCHANGED <<processInfo, errors, procs, children>>
             ELSE IF ns \notin DOMAIN processInfo \/ server \notin DOMAIN processInfo[ns]
             THEN \* proc.stdout.read() is evaluated, then the subscript fails
                  /\ children' = [children EXCEPT ![ns][k].stdout = Empty]
                  /\ Raise("KeyError")
                  /\ UNCHANGED <<processInfo, errors, procs, idx>>
             ELSE /\ processInfo' = [processInfo EXCEPT ![ns][server] =
                       [returncode |-> proc.returncode, stdout |-> proc.stdout,
                        stderr |-> proc.stderr]]
                  /\ errors' = (errors \/ ProcFailed(proc.returncode, proc.stderr))
                  /\ children' = [children EXCEPT ![ns][k] =
                       [@ EXCEPT !.state = "reaped", !.stdout = Empty, !.stderr = Empty]]
                  /\ procs' = RemoveAt(procs, idx)
                  /\ idx' = idx + 1
                  /\ Continue("poll")
  /\ UNCHANGED batchFlag
  /\ UNCHANGED <<sources, actions, logging, logFile, logFileError, localFiles,
                 ns, i, j, verified>>

\* a runProcs that logs and returns without looking at the Error Flag
RunProcsEndNoExit ==
  /\ pc = "drained"
  /\ batchFlag' = [batchFlag EXCEPT ![ns] = Append(@, errors)]
  /\ UNCHANGED <<logFile, logFileError>>
  /\ IF ns = "archive"
     THEN Continue("verify") /\ UNCHANGED j
     ELSE IF ns = "remotechecksum"
     THEN Continue("compare") /\ j' = 1
     ELSE Exit(0, "end") /\ UNCHANGED j
  /\ UNCHANGED <<sources, actions, logging, errors, processInfo, children,
                 procs, localFiles, ns, i, idx, verified>>

\* a runProcs that clears the Error Flag once it has reported the batch
RunProcsEndClears ==
  /\ pc = "drained"
  /\ batchFlag' = [batchFlag EXCEPT ![ns] = Append(@, errors)]
  /\ UNCHANGED <<logFile, logFileError>>
  /\ errors' = FALSE
  /\ IF errors
     THEN Exit(ExitBatchError, ns) /\ UNCHANGED j
     ELSE IF ns = "archive"
     THEN Continue("verify") /\ UNCHANGED j
     ELSE IF ns = "remotechecksum"
     THEN Continue("compare") /\ j' = 1
     ELSE Exit(0, "end") /\ UNCHANGED j
  /\ UNCHANGED <<sources, actions, logging, processInfo, children,
                 procs, localFiles, ns, i, idx, verified>>

\* the end of runProcs: logProcessInfo(namespace), then sys.exit(3) when the
\* Error Flag is set; otherwise the caller goes on
RunProcsEnd ==
  /\ pc = "drained"
  /\ IF logging /\ ns \notin DOMAIN processInfo
     THEN /\ Raise("KeyError")
          /\ UNCHANGED <<logFile, logFileError, j, batchFlag>>
     ELSE /\ batchFlag' = [batchFlag EXCEPT ![ns] = Append(@, errors)]
          /\ IF logging
             THEN /\ logFile' = logFile \o
                       LogEntries(processInfo[ns], DOMAIN processInfo[ns], "stdout")
                  /\ logFileError' = logFileError \o
                       LogEntries(processInfo[ns], DOMAIN processInfo[ns], "stderr")
             ELSE UNCHANGED <<logFile, logFileError>>
          /\ IF errors
             THEN Exit(ExitBatchError, ns) /\ UNCHANGED j
             ELSE IF ns = "archive"
             THEN Continue("verify") /\ UNCHANGED j
             ELSE IF ns = "remotechecksum"
             THEN Continue("compare") /\ j' = 1
             ELSE \* run() returns and the script ends
                  Exit(0, "end") /\ UNCHANGED j
  /\ UNCHANGED <<sources, actions, logging, errors, processInfo, children,
                 procs, localFiles, ns, i, idx, verified>>

\* ------------------------------------------------------------ verifyChecksums

VerifyChecksums ==
  /\ pc = "verify"
  /\ IF errors
     THEN /\ Exit(ExitVerifySkipped, "verifyChecksums")
          /\ UNCHANGED <<sources, actions, logging, errors, processInfo, logFile,
                         logFileError, children, procs, localFiles, ns, i, idx,
                         j, verified, batchFlag>>
     ELSE StartBatch("remotechecksum")

\* one iteration of the loop over the sources: buildTargetFolder, compareHashes.
\* The files under targetFolder/host are what rsync and anything that touched
\* the tree since have left there: an input, read when the hashes are compared.
CompareHost ==
  /\ pc = "compare"
  /\ j <= Len(sources)
  /\ \E mkdirOk \in BOOLEAN, files \in [Paths -> Contents \cup {NoFile}] :
       LET host == sources[j]
           tree == [f \in Hosts \X Paths |->
                      IF f[1] = host THEN files[f[2]] ELSE localFiles[f]]
       IN IF ~mkdirOk
          THEN Raise("OSError") /\ UNCHANGED <<j, verified, localFiles>>
          ELSE IF host \notin DOMAIN processInfo["remotechecksum"]
          THEN Raise("KeyError") /\ UNCHANGED <<j, verified, localFiles>>
          ELSE LET stdoutRemote == processInfo["remotechecksum"][host].stdout
               IN IF stdoutRemote = Empty
                  THEN Exit(ExitChecksum, "checksum") /\ UNCHANGED <<j, verified, localFiles>>
                  ELSE IF getHashesRaises(stdoutRemote)
                  THEN Raise("IndexError") /\ UNCHANGED <<j, verified, localFiles>>
                  ELSE /\ localFiles' = tree
                       /\ IF ~compareHashes(tree, host, stdoutRemote)
                          THEN Exit(ExitChecksum, "checksum") /\ UNCHANGED <<j, verified>>
                          ELSE /\ verified' = verified \cup {j}
                               /\ j' = j + 1
                               /\ Continue("compare")
  /\ UNCHANGED batchFlag
  /\ UNCHANGED <<sources, actions, logging, errors, processInfo, logFile,
                 logFileError, children, procs, ns, i, idx>>

\* verifyChecksums returns and run() calls clean()
VerifyReturn ==
  /\ pc = "compare"
  /\ j > Len(sources)
  /\ Continue("clean")
  /\ UNCHANGED batchFlag
  /\ UNCHANGED <<sources, actions, logging, errors, processInfo, logFile,
                 logFileError, children, procs, localFiles, ns, i, idx, j,
                 verified>>

\* ------------------------------------------------------------ clean

\* a clean() that does not look at the requested actions
CleanUngated ==
  /\ pc = "clean"
  /\ IF errors
     THEN /\ Exit(ExitCleanSkipped, "clean()")
          /\ UNCHANGED <<sources, actions, logging, errors, processInfo, logFile,
                         logFileError, children, procs, localFiles, ns, i, idx,
                         j, verified, batchFlag>>
     ELSE StartBatch("clean")

Clean ==
  /\ pc = "clean"
  /\ IF ~actions.clean \/ errors
     THEN /\ IF ~actions.clean
             THEN Exit(0, "clean()")
             ELSE Exit(ExitCleanSkipped, "clean()")
          /\ UNCHANGED <<sources, actions, logging, errors, processInfo, logFile,
                         logFileError, children, procs, localFiles, ns, i, idx,
                         j, verified, batchFlag>>
     ELSE StartBatch("clean")

\* ------------------------------------------------------------ a new run

\* the script is started again: a new process with the same settings module
\* and new arguments; the log files are opened with 'w'
Rerun ==
  /\ pc = "exit"
  /\ actions' \in [clean : BOOLEAN, run : {TRUE}]
  /\ UNCHANGED <<sources, logging>>
  /\ errors' = FALSE
  /\ processInfo' = EmptyFun
  /\ logFile' = <<>>
  /\ logFileError' = <<>>
  /\ children' = [n \in Namespaces |-> <<>>]
  /\ procs' = <<>>
  /\ pc' = "archive"
  /\ ns' = "archive"
  /\ i' = 1
  /\ idx' = 1
  /\ j' = 1
  /\ verified' = {}
  /\ exitCode' = {}
  /\ exc' = ""
  /\ exitSite' = ""
  /\ batchFlag' = [n \in Namespaces |-> <<>>]
  /\ localFiles' = [f \in Hosts \X Paths |-> NoFile]
  /\ lastFailure' = IF exitSite \in FailureSites
                    THEN <<exitSite, CHOOSE c \in exitCode : TRUE>>
                    ELSE <<>>

\* ------------------------------------------------------------ specifications

Next ==
  \/ Archive
  \/ Launch
  \/ BuildReturn
  \/ ChildTerminates
  \/ Poll
  \/ RunProcsEnd
  \/ VerifyChecksums
  \/ CompareHost
  \/ VerifyReturn
  \/ Clean

Spec == Init /\ [][Next]_vars

NextRuns == Next \/ Rerun

SpecRuns == Init /\ [][NextRuns]_vars

\* the orchestrator is one sequential thread: a statement that does not wait
\* for an external process is eventually executed
SpecFair == Init /\ [][Next]_vars /\ WF_vars(VerifyReturn) /\ WF_vars(Clean)

\* buildCommands(namespace) called on its own, with any namespace string; the
\* namespace of no command template stands for every string outside Namespaces
UnknownNamespace == "compress"

AnyNamespaces == Namespaces \cup {UnknownNamespace}

CallBuildCommands ==
  /\ pc = "archive"
  /\ \E namespace \in AnyNamespaces : StartBatch(namespace)

NextBuild ==
  \/ CallBuildCommands
  \/ Launch
  \/ BuildReturn
  \/ ChildTerminates

SpecBuild == Init /\ [][NextBuild]_vars

\* the run with external processes of any output size
NextPipe == Next \/ ChildBlocks

SpecPipe == Init /\ [][NextPipe]_vars


\* ------------------------------------------------------------ state functions

\* a process of the namespace has been launched
Launched(n) == Len(children[n]) > 0

\* compareHashes has returned True for every configured source
AllVerified == verified = 1..Len(sources)

\* the batch of the namespace has been drained and logged, and the Error Flag
\* was unset when it started and when it ended
BatchEndedUnset(n) == batchFlag[n] = <<FALSE, FALSE>>

\* ------------------------------------------------------------ claims

\* C1: verify before destroy.  Whenever a clean process has been launched for
\* some host, the archive batch and the remotechecksum batch both finished with
\* the Error Flag unset, compareHashes returned True for every configured
\* source, and the clean action was requested.
C1_VerifyBeforeDestroy ==
  Launched("clean") =>
    /\ BatchEndedUnset("archive")
    /\ BatchEndedUnset("remotechecksum")
    /\ AllVerified
    /\ actions.clean

C1_Witness == Launched("clean") /\ Len(sources) > 0 /\ AllVerified

\* the archive batch has set the Error Flag
ArchiveSetFlag ==
  \/ ns = "archive" /\ errors
  \/ Len(batchFlag["archive"]) = 2 /\ batchFlag["archive"][2]

\* C2: once the archive batch has set the Error Flag, no remotechecksum and no
\* clean process is ever launched, the orchestrator never leaves runProcs of
\* the archive batch for verifyChecksums or clean, and when the run ends it
\* ends with a non-zero exit code.
C2_ArchiveErrorStops ==
  ArchiveSetFlag =>
    /\ ~Launched("remotechecksum")
    /\ ~Launched("clean")
    /\ ns = "archive"
    /\ pc \in {"poll", "drained", "exit"}
    /\ pc = "exit" => 0 \notin exitCode

C2_Witness ==
  ArchiveSetFlag /\ pc = "exit" /\ exitCode = {ExitBatchError}


\* the first fields of the listing lines that getHashes turns into entries
ListedLines(stdout) ==
  {n \in 1..Len(stdout) : stdout[n][1] # "" /\ Len(stdout[n]) >= 2}

RemoteStdout(k) == processInfo["remotechecksum"][sources[k]].stdout

\* C3: a host passes checksum verification only if, for every
\* "<hash>  <path>" line of its remotechecksum output, the hash of the local
\* file at that path equals <hash>.
C3_EveryListedFileMatches ==
  \A k \in verified :
    \A n \in ListedLines(RemoteStdout(k)) :
      calculateLocalHash(localFiles, sources[k], RemoteStdout(k)[n][2])
        = RemoteStdout(k)[n][1]

\* C4: when the batch of a namespace has drained and one of its processes
\* terminated with a return code other than 0 or with error output, the Error
\* Flag is set at the end of the batch.
C4_FailureSetsFlag ==
  \A n \in Namespaces :
    (Len(batchFlag[n]) = 2 /\ \E k \in DOMAIN children[n] : children[n][k].failed)
      => batchFlag[n][2]

\* a host's result has been recorded in the Result Store
Recorded(n, k) ==
  /\ children[n][k].state = "reaped"
  /\ n \in DOMAIN processInfo
  /\ children[n][k].host \in DOMAIN processInfo[n]
  /\ processInfo[n][children[n][k].host].returncode = children[n][k].returncode

\* C5: in a batch over two or more hosts in which some host's process failed
\* (return code above 0), the run ends only after every process of the batch
\* has been recorded in the Result Store, with exit code 3 and with no
\* remotechecksum process launched.  (A run ended by a failing mkdir is not
\* what the claim is about.)
C5_FailureDoesNotAbortBatch ==
  ( /\ pc = "exit"
    /\ exc # "OSError"
    /\ Len(sources) >= 2
    /\ \E k \in DOMAIN children[ns] : \E rc \in children[ns][k].returncode : rc > 0 )
  => /\ procs = <<>>
     /\ Len(children[ns]) = Len(sources)
     /\ \A k \in DOMAIN children[ns] : Recorded(ns, k)
     /\ exitCode = {ExitBatchError}
     /\ ~Launched("remotechecksum")

\* the three failures the exit code is said to tell apart
PhaseSites == {"archive", "checksum", "clean"}

C7_EmptyListingFails ==
  \A k \in verified : DOMAIN getHashes(RemoteStdout(k)) # {}

\* every process of the batch of n was launched, has terminated and been
\* recorded, and runProcs has drained the batch and written its log entries
Drained(n) ==
  /\ Len(children[n]) = Len(sources)
  /\ \A k \in DOMAIN children[n] : Recorded(n, k)
  /\ Len(batchFlag[n]) = 2
  /\ logging =>
       \A h \in DOMAIN processInfo[n] :
         /\ processInfo[n][h].stdout # Empty =>
              \E e \in 1..Len(logFile) : logFile[e] = <<h, processInfo[n][h].stdout>>
         /\ processInfo[n][h].stderr # Empty =>
              \E e \in 1..Len(logFileError) :
                logFileError[e] = <<h, processInfo[n][h].stderr>>

\* C8: a remotechecksum process exists only when the archive batch has fully
\* drained (every host's process terminated, recorded, the batch logged), and
\* a clean process only when the remotechecksum batch has.
C8_FullBarrier ==
  /\ Launched("remotechecksum") => Drained("archive")
  /\ Launched("clean") => Drained("remotechecksum")

C8_Witness ==
  /\ Launched("clean")
  /\ logging
  /\ Len(logFile) >= 2

\* verification has passed for every host after an error-free archive batch
\* and the clean action was not requested
C9_Pre ==
  /\ BatchEndedUnset("archive")
  /\ Len(batchFlag["remotechecksum"]) = 2
  /\ AllVerified
  /\ pc # "compare" \/ j > Len(sources)
  /\ ~actions.clean

\* C9: without --clean no clean process is ever launched; and once the archive
\* batch was error-free and every host has passed verification, the run goes
\* on to end with exit code 0.
C9_DoneWithoutClean ==
  /\ [](~actions.clean => ~Launched("clean"))
  /\ [](C9_Pre /\ pc = "exit" => exitCode = {0})
  /\ C9_Pre ~> (pc = "exit" /\ exitCode = {0} /\ ~Launched("clean"))

C9_Witness ==
  /\ C9_Pre
  /\ Len(sources) > 0
  /\ pc = "exit"
  /\ exitCode = {0}

\* no process of the batch of n has terminated with a return code other than
\* 0 or with error output
BatchClean(n) == \A k \in DOMAIN children[n] : ~children[n][k].failed

\* C10: a batch that started with the Error Flag unset and in which no process
\* failed leaves the flag unset, while it runs and when it has ended.
C10_CleanBatchKeepsFlagUnset ==
  \A n \in Namespaces :
    (Len(batchFlag[n]) >= 1 /\ ~batchFlag[n][1] /\ BatchClean(n)) =>
      IF Len(batchFlag[n]) = 2 THEN ~batchFlag[n][2] ELSE (n = ns => ~errors)

C10_Witness ==
  /\ Len(sources) > 0
  /\ Drained("remotechecksum")
  /\ BatchClean("remotechecksum")
  /\ ~batchFlag["remotechecksum"][2]


\* C11: when the batch of a namespace starts (buildCommands has called
\* initProcessInfo and has launched nothing yet), the Result Store holds an
\* empty Host Result under that namespace for every configured source host.
C11_EveryHostInitialised ==
  (pc = "build" /\ i = 1) =>
    \A k \in 1..Len(sources) :
      /\ ns \in DOMAIN processInfo
      /\ sources[k] \in DOMAIN processInfo[ns]
      /\ processInfo[ns][sources[k]] = EmptyResult

\* C12: the Error Flag is never reset within a run, and only a step of the
\* poll loop of runProcs changes it.
C12_FlagMonotonic ==
  [][ /\ errors => errors'
      /\ errors' # errors => pc = "poll" ]_vars

C12_Witness ==
  /\ errors
  /\ pc = "exit"
  /\ exitSite = ns
  /\ Len(batchFlag[ns]) = 2


\* C13: the poll loop of runProcs is left only with an empty handle list and
\* with every launched process of the batch processed.
C13_LoopLeftOnlyWhenEmpty ==
  (pc = "drained" \/ (pc = "exit" /\ exc = "KeyError")) =>
    /\ procs = <<>>
    /\ \A k \in DOMAIN children[ns] : children[ns][k].state = "reaped"

\* C14: a step of the batch of one namespace (its initialisation, a result
\* stored by the poll loop, its logging) leaves the Result Store entries of
\* every other namespace as they were.
C14_OtherNamespacesUntouched ==
  [][ \A n \in DOMAIN processInfo :
        n # ns' => (n \in DOMAIN processInfo' /\ processInfo'[n] = processInfo[n]) ]_vars

C14_Witness ==
  /\ Len(sources) > 0
  /\ Drained("archive")
  /\ Drained("remotechecksum")
  /\ Len(batchFlag["clean"]) = 2
  /\ processInfo["archive"][sources[1]].stdout # Empty
  /\ processInfo["remotechecksum"][sources[1]].stdout # Empty

\* the output without its blank lines
NonBlank(stdout) == SelectSeq(stdout, LAMBDA line : line # <<"">>)

\* the remotechecksum outputs in the Result Store that getHashes can parse
ParsedOutputs ==
  IF "remotechecksum" \in DOMAIN processInfo
  THEN {processInfo["remotechecksum"][h].stdout :
          h \in DOMAIN processInfo["remotechecksum"]}
       \ {out \in Listings : getHashesRaises(out)}
  ELSE {}

\* C16: a blank line of the output (the piece after a trailing newline
\* included) never produces an entry: the mapping has no entry with an empty
\* hash, no more entries than the output has "<hash>  <path>" lines, and is
\* the mapping of the output with its blank lines removed.
C16_BlankLinesIgnored ==
  \A out \in ParsedOutputs :
    /\ "" \notin DOMAIN getHashes(out)
    /\ Cardinality(DOMAIN getHashes(out)) <= Cardinality(ListedLines(out))
    /\ getHashes(out) = getHashes(NonBlank(out))

C16_Witness ==
  \E out \in ParsedOutputs :
    /\ Len(out) = 2
    /\ out[2] = <<"">>
    /\ DOMAIN getHashes(out) = {out[1][1]}

\* C17: verifyChecksums and clean only ever begin with the Error Flag unset,
\* and no run ends with the "skipped because of previous errors" codes 6, 7.
C17_SkipExitsUnreachable ==
  /\ pc \in {"verify", "clean"} => ~errors
  /\ ExitVerifySkipped \notin exitCode
  /\ ExitCleanSkipped \notin exitCode

C17_Witness ==
  /\ pc = "clean"
  /\ actions.clean
  /\ Len(sources) > 0
  /\ \E k \in DOMAIN children["archive"] : children["archive"][k].failed

\* C19: a host passes verification only if every path listed in its
\* remotechecksum output has a readable local file.
C19_MissingFileFails ==
  \A k \in verified :
    \A n \in ListedLines(RemoteStdout(k)) :
      /\ RemoteStdout(k)[n][2] \in Paths
      /\ localFiles[<<sources[k], RemoteStdout(k)[n][2]>>] # NoFile

\* C15: buildCommands called with a namespace that has no command template
\* ends, whatever the source list, in sys.exit(4) with no process launched
\* (a call cut short by an OSError of buildTargetFolder set aside).
C15_UnknownNamespaceFailsFast ==
  (ns = UnknownNamespace /\ pc # "build" /\ exc # "OSError") =>
    /\ pc = "exit"
    /\ exitCode = {ExitInvalidCommand}
    /\ procs = <<>>

\* C18: no child is blocked writing to a full pipe while runProcs is polling
\* its batch, the child still in the handle list and passed over by the for
\* loop (poll() returned None, nothing was read).
C18_NoChildBlockedOnPipe ==
  pc = "poll" =>
    \A p \in 1..Len(procs) :
      (children[ns][procs[p]].state = "blocked") => (p >= idx)

====
